---- MODULE Spec2Model ----
(***************************************************************************)
(* BF-Interpreter (MajicDesigns): the paged BF-Explorer sketch              *)
(* (src/BF-Explorer/BF-Explorer.ino, lines 1-488) and the in-memory BF-run  *)
(* sketch (src/BF-Run/BF-run.ino, lines 1-114).                             *)
(*                                                                         *)
(*   cVirtualMemory  a one-page write-back cache over an SdFile             *)
(*   handlerX        the serial commands of the command table               *)
(*   loop            CP.run() (at most one command), then one interpreter   *)
(*                   instruction when runMode is not IDLE                   *)
(*                                                                         *)
(* Specifications:                                                         *)
(*   Spec     the BF-Explorer sketch after setup()                          *)
(*   SpecVM   one cVirtualMemory after begin(), under arbitrary get/set     *)
(*   SpecI, SpecA   the BF-Explorer sketch on chosen programs               *)
(*   SpecRun  the BF-run sketch on its embedded program                     *)
(*   SpecEq   both sketches on the same program and input                   *)
(***************************************************************************)
EXTENDS Integers, Sequences, FiniteSets, TLC

(***************************************************************************)
(* Bounds of the model.  The sketch's page sizes (200 and 100 bytes) and    *)
(* tape size (30000 bytes) are scaled down; the code is the same for every  *)
(* size.                                                                    *)
(***************************************************************************)
\* cVirtualMemory program(200): the program page size, scaled
ProgPageSize == 3
\* cVirtualMemory memory(100): the tape page size, scaled
MemPageSize == 2
\* MEMORY_SIZE = 30000: the tape length, scaled
MEMORY_SIZE == 4
\* interpreter instructions executed in one behaviour
MaxTicks == 3
\* largest numeric parameter given to the step command
MaxStepParam == 1
\* largest address given to the dump command
MaxDumpAddr == 1
\* SpecVM: page size and store length (not a multiple of the page size)
VmPageSize == 2
VmSize == 5
\* SpecVM: number of get/set calls in one behaviour
MaxVmOps == 4
\* SpecI: interpreter instructions executed in one behaviour
MaxTicksI == 13
\* SpecA: interpreter instructions executed in one behaviour
MaxTicksA == 70
\* SpecRun: calls of BF-run's loop() in one behaviour
MaxLoopsRun == 393
\* SpecEq: instructions each sketch executes in one behaviour
MaxTicksEq == 20

(***************************************************************************)
(* Program constants.                                                      *)
(***************************************************************************)
\* uint8_t cells and page bytes
ByteMod == 256
\* uint16_t steps, uint16_t count
WordMod == 65536
\* the eight opcodes, as the character codes the switch compares with
OP_GT == 62
OP_LT == 60
OP_PLUS == 43
OP_MINUS == 45
OP_DOT == 46
OP_COMMA == 44
OP_OPEN == 91
OP_CLOSE == 93

Min(a, b) == IF a < b THEN a ELSE b
Max(a, b) == IF a < b THEN b ELSE a

(***************************************************************************)
(* uint32_t.  A uint32_t value u is held in two's-complement form: as u     *)
(* when u < 2^31 and as u - 2^32 otherwise, which is the bit pattern an     *)
(* int32_t of the same bits shows.  Addition and subtraction of small       *)
(* numbers are then the integer ones (wrap-around included); comparison     *)
(* and division are not.                                                    *)
(***************************************************************************)
\* a < b on uint32_t
U32Lt(a, b) == IF (a < 0) = (b < 0) THEN a < b ELSE b < 0

\* 2^32 mod n, computed without leaving the 32-bit integers
TwoTo32Mod(n) == ((WordMod % n) * (WordMod % n)) % n

\* a mod n on uint32_t
U32Mod(a, n) == IF a < 0 THEN (TwoTo32Mod(n) + (a % n)) % n ELSE a % n

\* (a / n) * n on uint32_t
U32PageBase(a, n) == a - U32Mod(a, n)

(***************************************************************************)
(* cVirtualMemory.  One object is a record:                                 *)
(*   isOpen, file, curPos   the SdFile _fp: open flag, the bytes of the     *)
(*                          file on the card, the file position             *)
(*   fileSize               _fileSize                                       *)
(*   pageData               _pageData; <<>> is nullptr                      *)
(*   pageBaseAddr, pageSize, pageChanged                                    *)
(***************************************************************************)
\* a cVirtualMemory object before begin(): a global, zero-initialised and
\* then constructed
NewVM(ps) ==
  [isOpen |-> FALSE, file |-> <<>>, curPos |-> 0, fileSize |-> 0,
   pageData |-> <<>>, pageBaseAddr |-> 0, pageSize |-> ps,
   pageChanged |-> FALSE]

isLoaded(vm) == vm.isOpen

\* addr <= _fileSize on uint32_t
isInBounds(vm, addr) == ~U32Lt(vm.fileSize, addr)

\* _fp.seekSet(pos): fails, leaving the position, on a closed file or past
\* the end of the file
SeekSet(vm, pos) ==
  IF vm.isOpen /\ ~U32Lt(Len(vm.file), pos)
  THEN [vm EXCEPT !.curPos = pos]
  ELSE vm

\* _fp.read(_pageData, n): reads the bytes left in the file, at most n, at
\* the file position; a closed file reads nothing
FileRead(vm, n) ==
  IF ~vm.isOpen THEN vm
  ELSE LET k == Min(n, Len(vm.file) - vm.curPos)
       IN [vm EXCEPT
             !.pageData = [i \in 1..Len(vm.pageData) |->
                             IF i <= k THEN vm.file[vm.curPos + i]
                             ELSE vm.pageData[i]],
             !.curPos = vm.curPos + k]

\* _fp.write(_pageData, n): writes n bytes at the file position, growing
\* the file when they pass its end; a closed file writes nothing
FileWrite(vm, n) ==
  IF ~vm.isOpen THEN vm
  ELSE [vm EXCEPT
          !.file = [i \in 1..Max(Len(vm.file), vm.curPos + n) |->
                      IF vm.curPos < i /\ i <= vm.curPos + n
                      THEN vm.pageData[i - vm.curPos]
                      ELSE vm.file[i]],
          !.curPos = vm.curPos + n]

loadPage(vm, addr) ==
  [FileRead(SeekSet(vm, addr), vm.pageSize) EXCEPT
     !.pageBaseAddr = addr, !.pageChanged = FALSE]

savePage(vm, addr) ==
  IF vm.pageChanged THEN FileWrite(SeekSet(vm, addr), vm.pageSize) ELSE vm

\* the page test of get and set
PageMiss(vm, addr) ==
  \/ U32Lt(addr, vm.pageBaseAddr)
  \/ ~U32Lt(addr, vm.pageBaseAddr + vm.pageSize)

\* a page replacement that loads the new page before it saves the old one
PageIn_LoadFirst(vm, addr) ==
  IF PageMiss(vm, addr)
  THEN savePage(loadPage(vm, U32PageBase(addr, vm.pageSize)), vm.pageBaseAddr)
  ELSE vm

\* the first statement of get and of set: save the page, load the new one
PageIn(vm, addr) ==
  IF PageMiss(vm, addr)
  THEN loadPage(savePage(vm, vm.pageBaseAddr), U32PageBase(addr, vm.pageSize))
  ELSE vm

\* get(addr): the object after the call
getVM(vm, addr) == PageIn(vm, addr)

\* get(addr): the byte returned; nb is the byte a read through a null
\* _pageData yields
get(vm, addr, nb) ==
  LET v == PageIn(vm, addr)
  IN IF v.pageData = <<>> THEN nb
     ELSE v.pageData[(addr - v.pageBaseAddr) + 1]

\* a set that forgets to mark the page changed
set_NoDirty(vm, addr, value) ==
  LET v == PageIn(vm, addr)
  IN [v EXCEPT !.pageData[(addr - v.pageBaseAddr) + 1] = value]

set(vm, addr, value) ==
  LET v == PageIn(vm, addr)
  IN [v EXCEPT !.pageData[(addr - v.pageBaseAddr) + 1] = value,
               !.pageChanged = TRUE]

\* the absent file: open() of a name that does not resolve
NoFile == <<-1>>

\* begin(fname).  content is the file the name resolves to (NoFile: none),
\* garbage the bytes malloc hands out, closedSize what fileSize() of a
\* closed SdFile reports
begin(vm, content, garbage, closedSize) ==
  LET alloc  == IF vm.pageData = <<>> THEN garbage ELSE vm.pageData
      opened == content # NoFile
      v1 == [vm EXCEPT
               !.pageData = alloc,
               !.isOpen = opened,
               !.file = IF opened THEN content ELSE <<>>,
               !.curPos = 0,
               !.fileSize = IF opened THEN Len(content) ELSE closedSize]
  IN loadPage(v1, 0)

(***************************************************************************)
(* State.                                                                  *)
(***************************************************************************)
VARIABLES
  card,         \* the program files on the SD card
  \* BF-Explorer globals
  runMode,      \* "IDLE", "RUN" or "STEP"
  steps,        \* uint16_t steps
  listRunning,  \* the trace flag
  addrIP,       \* int32_t addrIP
  addrMP,       \* int32_t addrMP
  program,      \* cVirtualMemory program(200)
  memory,       \* cVirtualMemory memory(100)
  output,       \* the bytes the program printed with '.'
  pc,           \* the position in loop(): "cmd" (CP.run) or "tick"
  nticks,       \* instructions executed so far
  \* history of the BF-Explorer
  lastOp,       \* the handler or tick that ran last, and where it started
  stepTrack,    \* the instructions executed since the last step command
  \* SpecVM: one cVirtualMemory object and the flat array it stands for
  vm,
  flat,         \* address -> the byte last set there (at first the store's)
  flat0,        \* the store at begin()
  vmLast,       \* the last get or set call
  nVmOps,       \* calls made so far
  \* BF-run: the program string and the statics of its loop()
  runProgram,   \* const char PROGMEM program[], without its NUL
  runIP,        \* uint16_t ip
  runMemory,    \* uint8_t memory[MEM_SIZE]
  runMP,        \* uint8_t *mp, as the offset mp - memory
  serial,       \* the bytes BF-run printed with '.'
  undefined,    \* BF-run dereferenced mp, or scanned, outside its arrays
  nloops,       \* calls of BF-run's loop() so far
  \* the bytes waiting on the serial input of each sketch
  runIn,
  explorerIn

explorerVars ==
  <<card, runMode, steps, listRunning, addrIP, addrMP, program, memory,
    output, pc, nticks, lastOp, stepTrack>>
vmVars == <<vm, flat, flat0, vmLast, nVmOps>>
runVars ==
  <<runProgram, runIP, runMemory, runMP, serial, undefined, nloops, runIn,
    explorerIn>>
vars == <<explorerVars, vmVars, runVars>>

\* bytes malloc'ed memory and a null page may hold (a sample of the 256)
GarbageBytes == {0, OP_CLOSE}
\* the fills of a fresh page of n bytes
GarbageFills(n) == {[i \in 1..n |-> g] : g \in GarbageBytes}

\* the variables of the other specification, at rest
VmIdle ==
  /\ vm = NewVM(VmPageSize)
  /\ flat = <<>>
  /\ flat0 = <<>>
  /\ vmLast = [op |-> "none"]
  /\ nVmOps = 0

ExplorerIdle ==
  /\ card = {}
  /\ runMode = "IDLE"
  /\ steps = 0
  /\ listRunning = FALSE
  /\ addrIP = 0
  /\ addrMP = 0
  /\ program = NewVM(ProgPageSize)
  /\ memory = NewVM(MemPageSize)
  /\ output = <<>>
  /\ pc = "cmd"
  /\ nticks = 0
  /\ lastOp = [op |-> "none"]
  /\ stepTrack = [active |-> FALSE]

RunIdle ==
  /\ runProgram = <<>>
  /\ runIP = 0
  /\ runMemory = <<>>
  /\ runMP = 0
  /\ serial = <<>>
  /\ undefined = FALSE
  /\ nloops = 0
  /\ runIn = <<>>
  /\ explorerIn = <<>>

(***************************************************************************)
(* The BF-Explorer sketch.                                                  *)
(***************************************************************************)
\* the program files on the card, as bytes:  ",+]"  ">>+"  "+[-]"
Files ==
  { <<OP_COMMA, OP_PLUS, OP_CLOSE>>,
    <<OP_GT, OP_GT, OP_PLUS>>,
    <<OP_PLUS, OP_OPEN, OP_MINUS, OP_CLOSE>> }
\* the bytes getChar() returns (a sample of the 256)
InputBytes == {0, 1, 255}
\* the parameter of the step command: "" (held as -1) or a number
StepParams == {-1} \cup (0..MaxStepParam)
\* the parameter of the dump command
DumpAddrs == 0..MaxDumpAddr
\* const uint8_t DUMP_SIZE
DUMP_SIZE == 8

\* an int32_t passed for a uint32_t parameter keeps its bit pattern, which
\* is the form uint32_t values are held in here
ToU32(x) == x

TapeAddrs == 0..(MEMORY_SIZE - 1)

\* what memory.get(a) returns for every tape address
Tape(mem) == [a \in TapeAddrs |-> get(mem, a, 0)]

\* clearMemory(): memory.set(i, 0) for i = from .. MEMORY_SIZE-1
RECURSIVE clearFrom(_, _)
clearFrom(mem, i) ==
  IF i >= MEMORY_SIZE THEN mem ELSE clearFrom(set(mem, i, 0), i + 1)

\* a clearMemory whose loop starts at cell 1
clearMemory_From1(mem) == clearFrom(mem, 1)

clearMemory(mem) == clearFrom(mem, 0)

\* the zero-filled MEMORY.DAT createMemory() writes
MemoryFile == [i \in 1..MEMORY_SIZE |-> 0]

\* setup(): the globals as initialised, createMemory(), memory.begin();
\* files are the program files on the card, progPage the page size the
\* program object was constructed with
setup(files, progPage) ==
  /\ VmIdle
  /\ card = files
  /\ runMode = "IDLE"
  /\ steps = 0
  /\ listRunning = FALSE
  /\ addrIP = 0
  /\ addrMP = 0
  /\ program = NewVM(progPage)
  /\ \E garbage \in GarbageFills(MemPageSize) :
       memory = begin(NewVM(MemPageSize), MemoryFile, garbage, 0)
  /\ output = <<>>
  /\ pc = "cmd"
  /\ nticks = 0
  /\ lastOp = [op |-> "setup"]
  /\ stepTrack = [active |-> FALSE]

Init == setup(Files, ProgPageSize) /\ RunIdle

\* setIdle()
setIdle == "IDLE"

\* CP.run() dispatched a handler, which ran to its end; op describes it.
\* With runMode IDLE the rest of loop() does nothing and the next loop()
\* starts; otherwise the interpreter instruction of this loop() follows
Dispatched(op) ==
  /\ pc = "cmd"
  /\ pc' = IF runMode' = "IDLE" THEN "cmd" ELSE "tick"
  /\ lastOp' = op
  /\ UNCHANGED <<card, output, nticks, vmVars>>

\* CP.run() with no complete command line waiting (with runMode IDLE the
\* whole loop() changes nothing)
NoCommand ==
  /\ pc = "cmd"
  /\ runMode # "IDLE"
  /\ pc' = "tick"
  /\ UNCHANGED <<card, runMode, steps, listRunning, addrIP, addrMP, program,
                 memory, output, nticks, lastOp, stepTrack, vmVars>>

handlerHelp ==
  /\ runMode' = setIdle
  /\ Dispatched([op |-> "h", from |-> runMode])
  /\ stepTrack' = [active |-> FALSE]
  /\ UNCHANGED <<steps, listRunning, addrIP, addrMP, program, memory>>

handlerCD ==
  /\ runMode' = setIdle
  /\ Dispatched([op |-> "cd", from |-> runMode])
  /\ stepTrack' = [active |-> FALSE]
  /\ UNCHANGED <<steps, listRunning, addrIP, addrMP, program, memory>>

handlerLS ==
  /\ runMode' = setIdle
  /\ Dispatched([op |-> "ls", from |-> runMode])
  /\ stepTrack' = [active |-> FALSE]
  /\ UNCHANGED <<steps, listRunning, addrIP, addrMP, program, memory>>

\* strtoul(param, nullptr, 0) stored in the uint16_t steps; param -1 is ""
stepCount(param) == IF param = -1 THEN 1 ELSE param % WordMod

handlerS(param) ==
  /\ runMode' = "STEP"
  /\ steps' = stepCount(param)
  /\ Dispatched([op |-> "s", from |-> runMode, param |-> param])
  /\ stepTrack' = IF runMode = "IDLE" /\ isLoaded(program)
                  THEN [active |-> TRUE,
                        n |-> IF param = -1 THEN 1 ELSE param, done |-> 0]
                  ELSE [active |-> FALSE]
  /\ UNCHANGED <<listRunning, addrIP, addrMP, program, memory>>

\* handlerL; content is the file the name resolves to (NoFile: none), and
\* garbage and closedSize are begin's
handlerL(content, garbage, closedSize) ==
  /\ IF runMode = "IDLE"
     THEN /\ program' = begin(program, content, garbage, closedSize)
          /\ IF isLoaded(program')
             THEN /\ memory' = clearMemory(memory)
                  /\ addrMP' = 0
                  /\ addrIP' = 0
             ELSE UNCHANGED <<memory, addrMP, addrIP>>
     ELSE UNCHANGED <<program, memory, addrMP, addrIP>>
  /\ runMode' = setIdle
  /\ Dispatched([op |-> "l", from |-> runMode,
                 ok |-> runMode = "IDLE" /\ content # NoFile,
                 hadData |-> \E a \in TapeAddrs : get(memory, a, 0) # 0,
                 memBase |-> memory.pageBaseAddr])
  /\ stepTrack' = [active |-> FALSE]
  /\ UNCHANGED <<steps, listRunning>>

\* a handlerR that does not look at the program
runModeAfterR_NoLoadCheck(mode, loaded) ==
  IF mode = "IDLE" THEN "RUN" ELSE mode

\* runMode after handlerR
runModeAfterR(mode, loaded) ==
  IF mode = "IDLE"
  THEN IF ~loaded THEN mode ELSE "RUN"
  ELSE mode

handlerR ==
  /\ runMode' = runModeAfterR(runMode, isLoaded(program))
  /\ Dispatched([op |-> "r", from |-> runMode, loaded |-> isLoaded(program)])
  /\ stepTrack' = [active |-> FALSE]
  /\ UNCHANGED <<steps, listRunning, addrIP, addrMP, program, memory>>

\* a handlerP that only pauses and resumes
runModeAfterP_Resume(mode) ==
  IF mode = "RUN" THEN setIdle ELSE IF mode = "IDLE" THEN "RUN" ELSE mode

\* runMode after handlerP
runModeAfterP(mode) == IF mode = "RUN" THEN setIdle ELSE "RUN"

handlerP ==
  /\ runMode' = runModeAfterP(runMode)
  /\ Dispatched([op |-> "p", from |-> runMode])
  /\ stepTrack' = [active |-> FALSE]
  /\ UNCHANGED <<steps, listRunning, addrIP, addrMP, program, memory>>

\* a handlerT that ends with setIdle() like the other handlers
runModeAfterT_SetIdle(mode) == setIdle

\* runMode after handlerT
runModeAfterT(mode) == IF mode = "IDLE" THEN setIdle ELSE mode

handlerT ==
  /\ listRunning' = ~listRunning
  /\ runMode' = runModeAfterT(runMode)
  /\ Dispatched([op |-> "t", from |-> runMode])
  /\ stepTrack' = [active |-> FALSE]
  /\ UNCHANGED <<steps, addrIP, addrMP, program, memory>>

\* handlerD's two loops, each DUMP_SIZE calls of memory.get(addr + 1): the
\* tape object after n calls, with the cell values the first loop formats
RECURSIVE dumpLoop(_, _, _, _)
dumpLoop(mem, addr, n, cells) ==
  IF n = 0 THEN [memory |-> mem, cells |-> cells]
  ELSE dumpLoop(getVM(mem, addr + 1), addr, n - 1,
                IF Len(cells) < DUMP_SIZE
                THEN Append(cells, get(mem, addr + 1, 0)) ELSE cells)

handlerD(addr) ==
  /\ LET d == dumpLoop(memory, addr, 2 * DUMP_SIZE, <<>>)
     IN /\ memory' = d.memory
        /\ runMode' = setIdle
        /\ Dispatched([op |-> "d", from |-> runMode, addr |-> addr,
                       cells |-> d.cells])
  /\ stepTrack' = [active |-> FALSE]
  /\ UNCHANGED <<steps, listRunning, addrIP, addrMP, program>>

(***************************************************************************)
(* loop(): the interpreter instruction.                                     *)
(***************************************************************************)
\* the forward scan of case '[': the while (count) loop
RECURSIVE scanForward(_, _, _, _)
scanForward(prog, ip, count, nb) ==
  IF count = 0
  THEN [program |-> prog, addrIP |-> ip, idle |-> FALSE]
  ELSE LET ip1 == ip + 1
       IN IF ~isInBounds(prog, ToU32(ip1))
          THEN [program |-> prog, addrIP |-> ip1, idle |-> TRUE]
          ELSE LET opcode == get(prog, ToU32(ip1), nb)
                   c1 == IF opcode = OP_OPEN
                         THEN (count + 1) % WordMod ELSE count
                   c2 == IF opcode = OP_CLOSE
                         THEN (c1 - 1) % WordMod ELSE c1
               IN scanForward(getVM(prog, ToU32(ip1)), ip1, c2, nb)

\* a backward scan that does not count the ']' it passes
RECURSIVE scanBackward_NoNesting(_, _, _, _)
scanBackward_NoNesting(prog, ip, count, nb) ==
  IF count = 0
  THEN [program |-> prog, addrIP |-> ip, idle |-> FALSE]
  ELSE LET ip1 == ip - 1
       IN IF ~isInBounds(prog, ToU32(ip1))
          THEN [program |-> prog, addrIP |-> ip1, idle |-> TRUE]
          ELSE LET opcode == get(prog, ToU32(ip1), nb)
                   c2 == IF opcode = OP_OPEN
                         THEN (count - 1) % WordMod ELSE count
               IN scanBackward_NoNesting(getVM(prog, ToU32(ip1)), ip1, c2, nb)

\* the backward scan of case ']'
RECURSIVE scanBackward(_, _, _, _)
scanBackward(prog, ip, count, nb) ==
  IF count = 0
  THEN [program |-> prog, addrIP |-> ip, idle |-> FALSE]
  ELSE LET ip1 == ip - 1
       IN IF ~isInBounds(prog, ToU32(ip1))
          THEN [program |-> prog, addrIP |-> ip1, idle |-> TRUE]
          ELSE LET opcode == get(prog, ToU32(ip1), nb)
                   c1 == IF opcode = OP_CLOSE
                         THEN (count + 1) % WordMod ELSE count
                   c2 == IF opcode = OP_OPEN
                         THEN (c1 - 1) % WordMod ELSE c1
               IN scanBackward(getVM(prog, ToU32(ip1)), ip1, c2, nb)

\* case '[': scan when the cell is zero
caseOpen(mem, prog, ip, nb) ==
  IF mem = 0 THEN scanForward(prog, ip, 1, nb)
  ELSE [program |-> prog, addrIP |-> ip, idle |-> FALSE]

\* case ']': scan when the cell is not zero
caseClose(mem, prog, ip, nb) ==
  IF mem # 0 THEN scanBackward(prog, ip, 1, nb)
  ELSE [program |-> prog, addrIP |-> ip, idle |-> FALSE]

\* what follows memory.set in case ',': there is no break, so case '[' runs
afterComma(mem, prog, ip, nb) == caseOpen(mem, prog, ip, nb)

\* a ++mem that stops at 255
inc_Saturate(mem) == IF mem = ByteMod - 1 THEN mem ELSE mem + 1

\* ++mem and --mem on the uint8_t mem
inc(mem) == (mem + 1) % ByteMod
dec(mem) == (mem - 1) % ByteMod

\* the switch (opcode), entered with the cell mem at addrMP, and the tape
\* and the program as the two get calls left them; inp is the byte
\* getChar() returns.  Yields the tape, the program, addrMP, addrIP (before
\* the ++addrIP that follows the switch), the bytes printed, whether
\* setIdle() was called, and mem
dispatch(opcode, mem, tape, prog, mp, ip, inp, nb) ==
  LET same == [memory |-> tape, program |-> prog, addrMP |-> mp,
               addrIP |-> ip, printed |-> <<>>, idle |-> FALSE, mem |-> mem]
      jump(r, t, m) == [same EXCEPT !.memory = t, !.program = r.program,
                                    !.addrIP = r.addrIP, !.idle = r.idle,
                                    !.mem = m]
  IN CASE opcode = OP_GT -> [same EXCEPT !.addrMP = mp + 1]
       [] opcode = OP_LT -> [same EXCEPT !.addrMP = mp - 1]
       [] opcode = OP_PLUS ->
            [same EXCEPT !.memory = set(tape, ToU32(mp), inc(mem)),
                         !.mem = inc(mem)]
       [] opcode = OP_MINUS ->
            [same EXCEPT !.memory = set(tape, ToU32(mp), dec(mem)),
                         !.mem = dec(mem)]
       [] opcode = OP_DOT -> [same EXCEPT !.printed = <<mem>>]
       [] opcode = OP_COMMA ->
            jump(afterComma(inp, prog, ip, nb), set(tape, ToU32(mp), inp), inp)
       [] opcode = OP_OPEN -> jump(caseOpen(mem, prog, ip, nb), tape, mem)
       [] opcode = OP_CLOSE -> jump(caseClose(mem, prog, ip, nb), tape, mem)
       [] OTHER -> same

\* a step countdown that does not look at the run mode
stepDown_AnyMode(mode, n) ==
  [steps |-> (n - 1) % WordMod,
   runMode |-> IF (n - 1) % WordMod = 0 THEN setIdle ELSE mode]

\* steps--; if (steps == 0) setIdle();
stepDown(mode, n) ==
  IF mode = "STEP"
  THEN [steps |-> (n - 1) % WordMod,
        runMode |-> IF (n - 1) % WordMod = 0 THEN setIdle ELSE mode]
  ELSE [steps |-> n, runMode |-> mode]

\* the bytes a read through _pageData may yield when it is null
NullBytes(prog) == IF prog.pageData = <<>> THEN GarbageBytes ELSE {0}

\* the bytes getChar() may return in an instruction with this opcode (it is
\* called for ',' alone)
Inputs(opcode) == IF opcode = OP_COMMA THEN InputBytes ELSE {0}

\* the two trace lines of an instruction, printed when listRunning is set:
\* address, opcode, data address and cell before the switch, cell after it
traceLines(list, ip, opcode, mp, mem, after) ==
  IF list
  THEN <<[addrIP |-> ip, opcode |-> opcode, addrMP |-> mp, mem |-> mem],
         [mem |-> after]>>
  ELSE <<>>

\* the body of if (runMode != IDLE) in loop(), from the globals mode, n
\* (steps), list (listRunning), ip, mp, prog and tape; inp is the byte
\* getChar() returns, nb the byte a read through a null _pageData yields
loopBody(mode, n, list, ip, mp, prog0, tape0, inp, nb) ==
  LET mem    == get(tape0, ToU32(mp), 0)
      tape   == getVM(tape0, ToU32(mp))
      opcode == get(prog0, ToU32(ip), nb)
      prog   == getVM(prog0, ToU32(ip))
      oob    == ~isInBounds(prog, ToU32(ip))
      mode1  == IF oob THEN setIdle ELSE mode
      exec   == mode1 = "RUN" \/ mode1 = "STEP"
      r      == dispatch(opcode, mem, tape, prog, mp, ip, inp, nb)
      mode2  == IF exec /\ r.idle THEN setIdle ELSE mode1
      sd     == stepDown(mode2, n)
  IN [memory  |-> IF exec THEN r.memory ELSE tape,
      program |-> IF exec THEN r.program ELSE prog,
      addrMP  |-> IF exec THEN r.addrMP ELSE mp,
      addrIP  |-> IF exec THEN r.addrIP + 1 ELSE ip,
      printed |-> IF exec THEN r.printed ELSE <<>>,
      traced  |-> IF exec
                  THEN traceLines(list, ip, opcode, mp, mem, r.mem)
                  ELSE <<>>,
      runMode |-> sd.runMode,
      steps   |-> sd.steps,
      opcode  |-> opcode,
      exec    |-> exec,
      oob     |-> oob,
      brerr   |-> exec /\ r.idle]

\* one interpreter instruction: loop() with runMode not IDLE, while fewer
\* than budget instructions have run
TickN(inp, nb, budget) ==
  /\ pc = "tick"
  /\ runMode # "IDLE"
  /\ nticks < budget
  /\ \E b \in {loopBody(runMode, steps, listRunning, addrIP, addrMP, program,
                          memory, inp, nb)} :
     LET ended == addrIP < 0 \/ addrIP >= Len(program.file)
     IN /\ memory' = b.memory
        /\ program' = b.program
        /\ addrMP' = b.addrMP
        /\ addrIP' = b.addrIP
        /\ output' = output \o b.printed
        /\ runMode' = b.runMode
        /\ steps' = b.steps
        /\ lastOp' = [op |-> "tick", from |-> runMode, opcode |-> b.opcode,
                      exec |-> b.exec, oob |-> b.oob, brerr |-> b.brerr,
                      inp |-> inp]
        /\ stepTrack' =
             IF stepTrack.active
             THEN IF b.exec /\ ~b.brerr /\ ~ended
                  THEN [stepTrack EXCEPT !.done = stepTrack.done + 1]
                  ELSE [active |-> FALSE]
             ELSE stepTrack
  /\ nticks' = nticks + 1
  /\ pc' = "cmd"
  /\ UNCHANGED <<card, listRunning, vmVars>>

Tick(inp, nb) == TickN(inp, nb, MaxTicks)

\* the sizes fileSize() of a closed SdFile may report
ClosedSizes(prog, content) ==
  IF content = NoFile THEN {0, prog.fileSize} ELSE {0}

\* the fills malloc may hand to begin (it is called for a null page alone)
Mallocs(prog) ==
  IF prog.pageData = <<>> THEN GarbageFills(prog.pageSize)
  ELSE {prog.pageData}

Next ==
  /\ \/ NoCommand
     \/ handlerHelp
     \/ handlerCD
     \/ handlerLS
     \/ \E param \in StepParams : handlerS(param)
     \/ \E content \in card \cup {NoFile} :
        \E garbage \in Mallocs(program) :
        \E closedSize \in ClosedSizes(program, content) :
          handlerL(content, garbage, closedSize)
     \/ handlerR
     \/ handlerP
     \/ handlerT
     \/ \E addr \in DumpAddrs : handlerD(addr)
     \/ \E nb \in NullBytes(program) :
        \E inp \in Inputs(get(program, ToU32(addrIP), nb)) :
          Tick(inp, nb)
  /\ UNCHANGED runVars

Spec == Init /\ [][Next]_vars

(***************************************************************************)
(* Steps of Spec, named for the properties below.                           *)
(***************************************************************************)
\* a step of handlerL
LoadStep ==
  \E content \in card \cup {NoFile} :
  \E garbage \in Mallocs(program) :
  \E closedSize \in ClosedSizes(program, content) :
    handlerL(content, garbage, closedSize)

\* a step of the interpreter
TickStep ==
  \E nb \in NullBytes(program) :
  \E inp \in Inputs(get(program, ToU32(addrIP), nb)) :
    Tick(inp, nb)

\* a step of handlerD
DumpStep == \E addr \in DumpAddrs : handlerD(addr)

\* the tape reads the same before and after the step
TapeUnchanged == Tape(memory') = Tape(memory)

\* between handlers pc is "tick" exactly when an instruction is due
PcInv == pc \in {"cmd", "tick"} /\ (pc = "tick" => runMode # "IDLE")

(***************************************************************************)
(* SpecI: the sketch loading, running and single-stepping bracket and       *)
(* arithmetic programs, with no other command.                              *)
(***************************************************************************)
\* the program files on the card:  "["  "+]"  "[[]]"  "++[>[]<-]"  "+>-+"
IFiles ==
  { <<OP_OPEN>>,
    <<OP_PLUS, OP_CLOSE>>,
    <<OP_OPEN, OP_OPEN, OP_CLOSE, OP_CLOSE>>,
    <<OP_PLUS, OP_PLUS, OP_OPEN, OP_GT, OP_OPEN, OP_CLOSE, OP_LT, OP_MINUS,
      OP_CLOSE>>,
    <<OP_PLUS, OP_GT, OP_MINUS, OP_PLUS>> }

InitI == setup(IFiles, ProgPageSize) /\ RunIdle

\* l <file>, as the first command or after another load
ILoad ==
  /\ lastOp.op \in {"setup", "l"}
  /\ \E content \in card :
     \E garbage \in Mallocs(program) :
       handlerL(content, garbage, 0)

\* r, after a load
IRun == lastOp.op = "l" /\ handlerR

\* s, after a load or when the last step is done
IStep ==
  /\ runMode = "IDLE"
  /\ lastOp.op \in {"l", "tick"}
  /\ handlerS(-1)

ITick ==
  \E nb \in NullBytes(program) :
  \E inp \in Inputs(get(program, ToU32(addrIP), nb)) :
    TickN(inp, nb, MaxTicksI)

NextI ==
  /\ \/ ILoad
     \/ IRun
     \/ IStep
     \/ NoCommand
     \/ ITick
  /\ UNCHANGED runVars

SpecI == InitI /\ [][NextI]_vars

(***************************************************************************)
(* SpecA: the sketch, with the program page of 200 bytes it declares,       *)
(* loading and running the program of 65 '+' and one '.', with no other     *)
(* command.                                                                 *)
(***************************************************************************)
\* cVirtualMemory program(200)
PROGRAM_PAGE == 200

\* 65 '+' followed by '.'
ProgA == [i \in 1..66 |-> IF i <= 65 THEN OP_PLUS ELSE OP_DOT]

\* bytes the malloc'ed program page may hold (a sample of the 256), and the
\* fills of the page
AGarbageBytes == {0, OP_DOT, OP_PLUS, OP_CLOSE}
AGarbageFills == {[i \in 1..PROGRAM_PAGE |-> g] : g \in AGarbageBytes}

InitA == setup({ProgA}, PROGRAM_PAGE) /\ RunIdle

\* l <file>, as the first command
ALoad ==
  /\ lastOp.op = "setup"
  /\ \E content \in card :
     \E garbage \in AGarbageFills :
       handlerL(content, garbage, 0)

ATick ==
  \E nb \in NullBytes(program) :
  \E inp \in Inputs(get(program, ToU32(addrIP), nb)) :
    TickN(inp, nb, MaxTicksA)

NextA ==
  /\ \/ ALoad
     \/ IRun
     \/ NoCommand
     \/ ATick
  /\ UNCHANGED runVars

SpecA == InitA /\ [][NextA]_vars

(***************************************************************************)
(* Bracket matching as the language defines it, on the bytes of a program   *)
(* file; addresses count from 0 and -1 stands for no match.                 *)
(***************************************************************************)
\* the address of the first ']' at or after a that closes depth open '['
RECURSIVE matchAhead(_, _, _)
matchAhead(file, a, depth) ==
  IF a >= Len(file) THEN -1
  ELSE IF file[a + 1] = OP_OPEN THEN matchAhead(file, a + 1, depth + 1)
  ELSE IF file[a + 1] = OP_CLOSE
       THEN IF depth = 1 THEN a ELSE matchAhead(file, a + 1, depth - 1)
  ELSE matchAhead(file, a + 1, depth)

\* the address of the last '[' at or before a that opens depth pending ']'
RECURSIVE matchBehind(_, _, _)
matchBehind(file, a, depth) ==
  IF a < 0 THEN -1
  ELSE IF file[a + 1] = OP_CLOSE THEN matchBehind(file, a - 1, depth + 1)
  ELSE IF file[a + 1] = OP_OPEN
       THEN IF depth = 1 THEN a ELSE matchBehind(file, a - 1, depth - 1)
  ELSE matchBehind(file, a - 1, depth)

\* the ']' matching the '[' at a, and the '[' matching the ']' at a
MatchingClose(file, a) == matchAhead(file, a + 1, 1)
MatchingOpen(file, a) == matchBehind(file, a - 1, 1)

\* every bracket of the file has its match
Balanced(file) ==
  \A a \in 0..(Len(file) - 1) :
    /\ file[a + 1] = OP_OPEN => MatchingClose(file, a) # -1
    /\ file[a + 1] = OP_CLOSE => MatchingOpen(file, a) # -1

\* the instruction pointer is at a byte of the program file, and the byte
\* is op
AtOpcode(op) ==
  /\ 0 <= addrIP
  /\ addrIP < Len(program.file)
  /\ program.file[addrIP + 1] = op

\* after an instruction that ran the forward scan: the last address the
\* scan passed to program.get.  The scan leaves addrIP at the matching ']'
\* or, on the error, one past the last address that was in bounds, and the
\* ++addrIP after the switch follows
LastScanned == IF lastOp.brerr THEN addrIP - 2 ELSE addrIP - 1

\* the cell at the data pointer, as loop() reads it
Cell == get(memory, ToU32(addrMP), 0)

(***************************************************************************)
(* C2: step(n) issued from Idle on a loaded program that does not end or    *)
(* hit a bracket error within n instructions, with no further commands,     *)
(* executes exactly n instructions and then the controller is Idle, for     *)
(* every n of the 16-bit counter: at the end of each loop() since the       *)
(* command, at most n instructions were executed, the controller is         *)
(* Stepping while fewer than n were, and Idle once n were.                  *)
(***************************************************************************)
C2_StepExactlyN ==
  (pc = "cmd" /\ stepTrack.active) =>
    /\ stepTrack.done <= stepTrack.n
    /\ stepTrack.done < stepTrack.n => runMode = "STEP"
    /\ stepTrack.done = stepTrack.n => runMode = "IDLE"

\* the same for n >= 1 (and the omitted parameter)
C2_StepExactlyN_Positive ==
  (pc = "cmd" /\ stepTrack.active /\ stepTrack.n >= 1) =>
    /\ stepTrack.done <= stepTrack.n
    /\ stepTrack.done < stepTrack.n => runMode = "STEP"
    /\ stepTrack.done = stepTrack.n => runMode = "IDLE"

(***************************************************************************)
(* C3: executing ',' stores the input byte at cell(dp), leaves dp alone,    *)
(* advances ip by exactly one and performs no bracket scan, for every       *)
(* input byte and every program text after the ','.                         *)
(***************************************************************************)
C3_CommaIndependent ==
  [][(TickStep /\ lastOp'.exec /\ lastOp'.opcode = OP_COMMA) =>
        /\ addrIP' = addrIP + 1
        /\ addrMP' = addrMP
        /\ get(memory', ToU32(addrMP), 0) = lastOp'.inp
        /\ ~lastOp'.brerr]_vars

(***************************************************************************)
(* C4: a load command issued while the controller is not Idle is ignored:   *)
(* run mode, remaining step count, loaded program, ip, dp and every tape    *)
(* cell are the same after the command as before it.                        *)
(***************************************************************************)
C4_LoadIgnoredWhenBusy ==
  [][(LoadStep /\ runMode # "IDLE") =>
        /\ runMode' = runMode
        /\ steps' = steps
        /\ isLoaded(program') = isLoaded(program)
        /\ program'.file = program.file
        /\ addrIP' = addrIP
        /\ addrMP' = addrMP
        /\ TapeUnchanged]_vars

(***************************************************************************)
(* C5: a Running controller becomes Idle only through the pause toggle, an  *)
(* out-of-bounds instruction pointer or an unterminated-bracket error; no   *)
(* other command takes it to Idle.                                          *)
(***************************************************************************)
C5_OnlyPauseOrEndStopsRun ==
  [][(runMode = "RUN" /\ runMode' = "IDLE") =>
        \/ handlerP
        \/ TickStep /\ (lastOp'.oob \/ lastOp'.brerr)]_vars

(***************************************************************************)
(* C6: whenever the run mode is Running or Stepping a program is loaded     *)
(* (the program store is open), whatever commands led there.                *)
(***************************************************************************)
C6_RunningImpliesLoaded ==
  runMode \in {"RUN", "STEP"} => isLoaded(program)

(***************************************************************************)
(* C7: every accepted run() (controller Idle, program loaded) starts the    *)
(* program from start conditions: the first instruction after run() finds   *)
(* ip = 0, dp = 0 and every tape cell reading 0.                            *)
(***************************************************************************)
C7_RunFromStartConditions ==
  (lastOp.op = "r" /\ lastOp.from = "IDLE" /\ lastOp.loaded /\ pc = "tick") =>
    /\ addrIP = 0
    /\ addrMP = 0
    /\ \A a \in TapeAddrs : get(memory, a, 0) = 0

(***************************************************************************)
(* C8: after a load command that succeeds from Idle the controller is       *)
(* Idle, ip = 0, dp = 0 and memory.get(a) = 0 for every tape address a in   *)
(* [0, MEMORY_SIZE), whatever the cells held before and whichever tape      *)
(* page was resident.                                                       *)
(***************************************************************************)
C8_LoadResets ==
  (lastOp.op = "l" /\ lastOp.ok) =>
    /\ runMode = "IDLE"
    /\ addrIP = 0
    /\ addrMP = 0
    /\ \A a \in TapeAddrs : get(memory, a, 0) = 0

\* a load succeeded on a tape that held a nonzero cell, with a page other
\* than the first resident
C8_Witness ==
  /\ lastOp.op = "l"
  /\ lastOp.ok
  /\ lastOp.hadData
  /\ lastOp.memBase # 0

(***************************************************************************)
(* C9: run() changes the run mode only from Idle with a program loaded,     *)
(* where it yields Running; with no program loaded it leaves the            *)
(* controller Idle, and issued while Running or Stepping it leaves run      *)
(* mode and step count unchanged; ip, dp and the tape are unchanged.        *)
(***************************************************************************)
C9_RunOnlyFromIdleLoaded ==
  [][handlerR =>
        /\ (runMode = "IDLE" /\ isLoaded(program)) => runMode' = "RUN"
        /\ (runMode = "IDLE" /\ ~isLoaded(program)) => runMode' = "IDLE"
        /\ runMode # "IDLE" => (runMode' = runMode /\ steps' = steps)
        /\ runMode' # runMode => (runMode = "IDLE" /\ isLoaded(program))
        /\ addrIP' = addrIP
        /\ addrMP' = addrMP
        /\ TapeUnchanged]_vars

\* run() was refused for want of a program, after a load that failed
C9_Witness ==
  /\ lastOp.op = "r"
  /\ lastOp.from = "IDLE"
  /\ ~lastOp.loaded
  /\ runMode = "IDLE"
  /\ program.pageData # <<>>

(***************************************************************************)
(* C10: the pause command toggles the run mode and nothing else: from       *)
(* Running it yields Idle, from Idle or Stepping it yields Running, and     *)
(* ip, dp, the tape and the trace flag are unchanged.                       *)
(***************************************************************************)
C10_PauseToggles ==
  [][handlerP =>
        /\ runMode' = IF runMode = "RUN" THEN "IDLE" ELSE "RUN"
        /\ addrIP' = addrIP
        /\ addrMP' = addrMP
        /\ TapeUnchanged
        /\ listRunning' = listRunning]_vars

\* pause was given while Stepping, with the trace on and a nonzero cell on
\* the tape, and the controller is Running
C10_Witness ==
  /\ lastOp.op = "p"
  /\ lastOp.from = "STEP"
  /\ runMode = "RUN"
  /\ listRunning
  /\ \E a \in TapeAddrs : get(memory, a, 0) # 0

(***************************************************************************)
(* C11: on a tick taken in Running or Stepping with ip not in bounds of     *)
(* the program the controller becomes Idle and nothing else happens: ip,    *)
(* dp, every tape cell, the remaining step count and the program output     *)
(* are unchanged, and no opcode is dispatched.                              *)
(***************************************************************************)
C11_OutOfBoundsOnlyIdles ==
  [][(TickStep /\ ~isInBounds(program, ToU32(addrIP))) =>
        /\ runMode' = "IDLE"
        /\ addrIP' = addrIP
        /\ addrMP' = addrMP
        /\ TapeUnchanged
        /\ steps' = steps
        /\ output' = output
        /\ ~lastOp'.exec]_vars

\* a Stepping tick found ip past a loaded program, with steps left to go
\* and a nonzero cell on the tape
C11_Witness ==
  /\ lastOp.op = "tick"
  /\ lastOp.oob
  /\ lastOp.from = "STEP"
  /\ isLoaded(program)
  /\ steps > 0
  /\ runMode = "IDLE"
  /\ \E a \in TapeAddrs : get(memory, a, 0) # 0

(***************************************************************************)
(* C12: loading and running the program of 65 '+' and one '.' emits         *)
(* exactly one output byte, 65 ('A'), and then reaches Idle with no         *)
(* further output and no further change to the tape, whatever the program   *)
(* page buffer holds beyond the file's bytes: the output is never more      *)
(* than the one byte 65, once it is printed the tape holds 65 in cell 0     *)
(* and 0 elsewhere, and when the run has gone Idle the byte was printed.    *)
(***************************************************************************)
C12_PrintsAThenIdle ==
  /\ output \in {<<>>, <<65>>}
  /\ output = <<65>> =>
       Tape(memory) = [a \in TapeAddrs |-> IF a = 0 THEN 65 ELSE 0]
  /\ (lastOp.op = "tick" /\ runMode = "IDLE") => output = <<65>>

(***************************************************************************)
(* C13: when a '[' of the program is executed with cell(dp) = 0 and has no  *)
(* matching ']' inside the program, or a ']' is executed with cell(dp) # 0  *)
(* and has no matching '[' inside the program, the bracket scan ends, the   *)
(* error is reported and the controller is Idle at the end of that tick,    *)
(* in Running as in Stepping.                                               *)
(***************************************************************************)
C13_UnterminatedBracketIdles ==
  [][(ITick /\
      \/ AtOpcode(OP_OPEN) /\ Cell = 0
           /\ MatchingClose(program.file, addrIP) = -1
      \/ AtOpcode(OP_CLOSE) /\ Cell # 0
           /\ MatchingOpen(program.file, addrIP) = -1)
     => (runMode' = "IDLE" /\ lastOp'.brerr)]_vars

\* the same for the ']' alone
C13_UnterminatedCloseIdles ==
  [][(ITick /\ AtOpcode(OP_CLOSE) /\ Cell # 0
            /\ MatchingOpen(program.file, addrIP) = -1)
     => (runMode' = "IDLE" /\ lastOp'.brerr)]_vars

(***************************************************************************)
(* C14: in a program with balanced, nested brackets a tick executing '['    *)
(* at address a with cell(dp) = 0 ends with ip one past the matching ']',   *)
(* a tick executing ']' with cell(dp) # 0 ends with ip one past the         *)
(* matching '[', '[' with a nonzero cell and ']' with a zero cell end with  *)
(* ip = a + 1, and none of them changes dp or a tape cell.                  *)
(***************************************************************************)
C14_BracketJumps ==
  [][(ITick /\ Balanced(program.file)) =>
        /\ (AtOpcode(OP_OPEN) /\ Cell = 0) =>
              addrIP' = MatchingClose(program.file, addrIP) + 1
        /\ (AtOpcode(OP_CLOSE) /\ Cell # 0) =>
              addrIP' = MatchingOpen(program.file, addrIP) + 1
        /\ (AtOpcode(OP_OPEN) /\ Cell # 0) => addrIP' = addrIP + 1
        /\ (AtOpcode(OP_CLOSE) /\ Cell = 0) => addrIP' = addrIP + 1
        /\ (AtOpcode(OP_OPEN) \/ AtOpcode(OP_CLOSE)) =>
              (addrMP' = addrMP /\ TapeUnchanged)]_vars

\* the outer ']' of "++[>[]<-]" jumped back over the inner pair to one past
\* its '[', with a nonzero cell on the tape
C14_Witness ==
  /\ lastOp.op = "tick"
  /\ lastOp.opcode = OP_CLOSE
  /\ Len(program.file) = 9
  /\ addrIP = 3
  /\ Cell # 0

(***************************************************************************)
(* C15: cell arithmetic is modulo 256: '+' on a cell holding v leaves       *)
(* (v + 1) mod 256 in cell(dp) and '-' leaves (v - 1) mod 256; dp and       *)
(* every other cell are unchanged and ip advances by one.  (dp is the       *)
(* address of a tape cell.)                                                 *)
(***************************************************************************)
C15_CellArithmeticWraps ==
  [][(ITick /\ addrMP \in TapeAddrs /\ lastOp'.exec
            /\ lastOp'.opcode \in {OP_PLUS, OP_MINUS}) =>
        /\ get(memory', ToU32(addrMP), 0) =
              IF lastOp'.opcode = OP_PLUS
              THEN (Cell + 1) % 256
              ELSE (Cell + 255) % 256
        /\ \A a \in TapeAddrs \ {addrMP} :
              get(memory', a, 0) = get(memory, a, 0)
        /\ addrMP' = addrMP
        /\ addrIP' = addrIP + 1]_vars

\* '+' took a cell from 255 to 0 while another cell held 1
C15_Witness ==
  /\ lastOp.op = "tick"
  /\ lastOp.exec
  /\ lastOp.opcode = OP_PLUS
  /\ addrMP = 1
  /\ Cell = 0
  /\ get(memory, 0, 0) = 1
  /\ program.file = <<OP_PLUS, OP_GT, OP_MINUS, OP_PLUS>>
  /\ addrIP = 4

(***************************************************************************)
(* C16: the trace flag does not influence execution.  Two executions that   *)
(* differ only in the trace flag, or in where trace toggles occur, go       *)
(* through the same run mode, step count, ip, dp, tape and program output:  *)
(*   - whenever an instruction is due, loop() run with the flag set and     *)
(*     with it clear yields the same run mode, step count, ip, dp, tape,    *)
(*     program object and printed bytes, for every input byte; only the     *)
(*     trace lines differ (two with the flag set, none with it clear);      *)
(*   - the trace toggle flips the flag and changes none of run mode, step   *)
(*     count, ip, dp, tape, program or output;                              *)
(*   - no other step changes the flag.                                      *)
(***************************************************************************)
C16_TraceNoInfluence ==
  /\ [](pc = "tick" =>
          \A nb \in NullBytes(program) : \A inp \in InputBytes :
            LET on  == loopBody(runMode, steps, TRUE, addrIP, addrMP,
                                program, memory, inp, nb)
                off == loopBody(runMode, steps, FALSE, addrIP, addrMP,
                                program, memory, inp, nb)
            IN /\ [on EXCEPT !.traced = <<>>] = off
               /\ on.exec => Len(on.traced) = 2)
  /\ [][handlerT =>
          /\ listRunning' = ~listRunning
          /\ runMode' = runMode
          /\ steps' = steps
          /\ addrIP' = addrIP
          /\ addrMP' = addrMP
          /\ memory' = memory
          /\ program' = program
          /\ output' = output]_vars
  /\ [][listRunning' # listRunning => handlerT]_vars

\* the trace was switched on in mid-run, and an instruction has since run
\* with it on and left a nonzero cell
C16_Witness ==
  /\ lastOp.op = "tick"
  /\ lastOp.exec
  /\ lastOp.from = "RUN"
  /\ listRunning
  /\ nticks >= 2
  /\ \E a \in TapeAddrs : get(memory, a, 0) # 0

(***************************************************************************)
(* C19: the dump command with address n reports the contents of the eight   *)
(* tape cells at addresses n, n+1, ..., n+7, in that order, and changes no  *)
(* tape cell.  (The cells compared are those of the addresses that lie on   *)
(* the tape.)                                                               *)
(***************************************************************************)
C19_DumpReportsEightCells ==
  [][DumpStep =>
       /\ Len(lastOp'.cells) = DUMP_SIZE
       /\ \A i \in 1..DUMP_SIZE :
            (lastOp'.addr + i - 1) \in TapeAddrs =>
              lastOp'.cells[i] = get(memory, lastOp'.addr + i - 1, 0)
       /\ TapeUnchanged]_vars

(***************************************************************************)
(* SpecVM: a cVirtualMemory over a store of VmSize bytes, after begin(),    *)
(* under get and set calls with addresses below the store size.             *)
(***************************************************************************)
\* the stores begin() is called on and the bytes set() is called with
VmStores == {[i \in 1..VmSize |-> 0], [i \in 1..VmSize |-> 1 + (i % 2)]}
VmSetBytes == {1, 3}
VmAddrs == 0..(VmSize - 1)

InitVM ==
  /\ ExplorerIdle
  /\ RunIdle
  /\ \E content \in VmStores :
     \E garbage \in GarbageFills(VmPageSize) :
       /\ vm = begin(NewVM(VmPageSize), content, garbage, 0)
       /\ flat = [a \in VmAddrs |-> content[a + 1]]
       /\ flat0 = [a \in VmAddrs |-> content[a + 1]]
  /\ vmLast = [op |-> "begin"]
  /\ nVmOps = 0

\* a call of vm.get(addr)
VmGet(addr) ==
  /\ nVmOps < MaxVmOps
  /\ vm' = getVM(vm, addr)
  /\ vmLast' = [op |-> "get", addr |-> addr, val |-> get(vm, addr, 0),
                miss |-> PageMiss(vm, addr), dirty |-> vm.pageChanged]
  /\ nVmOps' = nVmOps + 1
  /\ UNCHANGED <<flat, flat0>>

\* a call of vm.set(addr, value)
VmSet(addr, value) ==
  /\ nVmOps < MaxVmOps
  /\ vm' = set(vm, addr, value)
  /\ flat' = [flat EXCEPT ![addr] = value]
  /\ vmLast' = [op |-> "set", addr |-> addr, val |-> value,
                miss |-> PageMiss(vm, addr), dirty |-> vm.pageChanged]
  /\ nVmOps' = nVmOps + 1
  /\ UNCHANGED flat0

NextVM ==
  /\ \/ \E addr \in VmAddrs : VmGet(addr)
     \/ \E addr \in VmAddrs : \E value \in VmSetBytes : VmSet(addr, value)
  /\ UNCHANGED <<explorerVars, runVars>>

SpecVM == InitVM /\ [][NextVM]_vars

(***************************************************************************)
(* C1: after begin(), under any sequence of get and set calls with          *)
(* addresses below the store size, get(addr) returns the byte of the most   *)
(* recent set(addr, .), or the byte the store held at begin() when addr     *)
(* was never set: the value a get call returned is the flat array's, and    *)
(* in every state a get of any address would return the flat array's byte.  *)
(***************************************************************************)
C1_ReadAfterWrite ==
  vmLast.op # "none" =>
    /\ vmLast.op = "get" => vmLast.val = flat[vmLast.addr]
    /\ \A a \in VmAddrs : get(vm, a, 0) = flat[a]

\* a get that missed the resident page returns a byte that was set, not the
\* store's byte at begin(), after the page holding it was evicted and the
\* get itself evicted a dirty page
C1_Witness ==
  /\ vmLast.op = "get"
  /\ vmLast.miss
  /\ vmLast.dirty
  /\ vmLast.val # flat0[vmLast.addr]
  /\ vmLast.val = flat[vmLast.addr]
  /\ vmLast.addr >= VmSize - 1

(***************************************************************************)
(* C17: for a store whose length is not a multiple of the page size, get    *)
(* and set calls with addresses below the store length leave the backing    *)
(* store's length unchanged, also when a dirty final partial page is        *)
(* evicted.                                                                 *)
(***************************************************************************)
C17_StoreLengthImmutable ==
  vmLast.op # "none" => Len(vm.file) = VmSize

\* the resident page buffer differs from the bytes persisted in the store
\* at the page's base address
PageDiffers(v) ==
  \E i \in 1..v.pageSize :
    /\ v.pageBaseAddr + i <= Len(v.file)
    /\ v.pageData[i] # v.file[v.pageBaseAddr + i]

(***************************************************************************)
(* C18 as claimed: in every state after begin() the dirty flag is true if   *)
(* and only if the resident page buffer differs from the bytes persisted    *)
(* in the store at the resident page's base address.                        *)
(***************************************************************************)
C18_DirtyIffDiffers ==
  vmLast.op # "none" => (vm.pageChanged <=> PageDiffers(vm))

(***************************************************************************)
(* C18 as amended: in every state after begin() the dirty flag is true if   *)
(* the resident page buffer differs from the bytes persisted in the store   *)
(* at the resident page's base address (it is also true after a set that    *)
(* stored the byte the cell already held).                                  *)
(***************************************************************************)
C18_DiffersImpliesDirty ==
  vmLast.op # "none" => (PageDiffers(vm) => vm.pageChanged)

\* a set missed the resident page, evicted a dirty page, and left the new
\* page different from the store
C18_Witness ==
  /\ vmLast.op = "set"
  /\ vmLast.miss
  /\ vmLast.dirty
  /\ PageDiffers(vm)
  /\ vm.pageChanged

(***************************************************************************)
(* C20: on every get or set whose address misses the resident page the      *)
(* store is written if and only if the resident page is dirty, the write    *)
(* covers exactly the old page's address range and happens before the new   *)
(* page is read, the new base is floor(addr / pageSize) * pageSize and the  *)
(* dirty flag is false right after the load (after a set it is true again   *)
(* by the store that follows); an access that hits the resident page reads  *)
(* and writes nothing of the store.                                         *)
(***************************************************************************)
C20_PageReplacement ==
  [][NextVM =>
       LET a   == vmLast'.addr
           ps  == vm.pageSize
           old == vm.pageBaseAddr
           new == (a \div ps) * ps
       IN IF a < old \/ a >= old + ps
          THEN /\ vm'.pageBaseAddr = new
               /\ vm.pageChanged =>
                    /\ Len(vm'.file) = Max(Len(vm.file), old + ps)
                    /\ \A i \in 1..ps : vm'.file[old + i] = vm.pageData[i]
               /\ ~vm.pageChanged => vm'.file = vm.file
               /\ \A i \in 1..Len(vm.file) :
                    (i <= old \/ i > old + ps) => vm'.file[i] = vm.file[i]
               /\ \A i \in 1..ps :
                    (new + i <= Len(vm'.file)
                       /\ ~(vmLast'.op = "set" /\ new + i = a + 1)) =>
                      vm'.pageData[i] = vm'.file[new + i]
               /\ vm'.curPos = new + Min(ps, Len(vm'.file) - new)
               /\ vm'.pageChanged = (vmLast'.op = "set")
          ELSE /\ vm'.file = vm.file
               /\ vm'.curPos = vm.curPos
               /\ vm'.pageBaseAddr = old]_vars

\* a get missed the resident page and the write-back of the dirty page it
\* evicted changed the store
C20_Witness ==
  /\ vmLast.op = "get"
  /\ vmLast.miss
  /\ vmLast.dirty
  /\ ~vm.pageChanged
  /\ \E a2 \in VmAddrs : vm.file[a2 + 1] # flat0[a2]

(***************************************************************************)
(* The BF-run sketch (src/BF-Run/BF-run.ino): the program is a string in    *)
(* flash, the tape an array, and loop() executes one instruction.           *)
(***************************************************************************)
\* const uint16_t MEM_SIZE
MEM_SIZE == 400

\* const char PROGMEM program[], hello world
HelloWorld ==
  LET P == OP_PLUS
      M == OP_MINUS
      R == OP_GT
      L == OP_LT
      D == OP_DOT
      O == OP_OPEN
      C == OP_CLOSE
  IN <<
        P, P, P, P, P, P, P, P, P, P, O, R, P, P, P, P, P, P, P, R, P, P,
        P, P, P, P, P, P, P, P, R, P, P, P, R, P, L, L, L, L, M, C, R, P,
        P, D, R, P, D, P, P, P, P, P, P, P, D, D, P, P, P, D, R, P, P, D,
        L, L, P, P, P, P, P, P, P, P, P, P, P, P, P, P, P, D, R, D, P, P,
        P, D, M, M, M, M, M, M, D, M, M, M, M, M, M, M, M, D, R, P, D, R,
        D
     >>

\* pgm_read_byte(program + a), for a within the string and its NUL
pgm_read_byte(prog, a) == IF a < Len(prog) THEN prog[a + 1] ELSE 0

\* static uint8_t memory[MEM_SIZE] = { 0 }
ZeroMemory == [a \in 0..(MEM_SIZE - 1) |-> 0]

\* the while (count) loop of case '[', on the uint16_t ip and count; lost
\* when ip leaves the string and its NUL
RECURSIVE whileForward(_, _, _)
whileForward(prog, a, count) ==
  IF count = 0 THEN [ip |-> a, lost |-> FALSE]
  ELSE LET a1 == (a + 1) % WordMod
       IN IF a1 > Len(prog) THEN [ip |-> a1, lost |-> TRUE]
          ELSE LET c1 == IF pgm_read_byte(prog, a1) = OP_OPEN
                         THEN (count + 1) % WordMod ELSE count
                   c2 == IF pgm_read_byte(prog, a1) = OP_CLOSE
                         THEN (c1 - 1) % WordMod ELSE c1
               IN whileForward(prog, a1, c2)

\* the while (count) loop of case ']'
RECURSIVE whileBackward(_, _, _)
whileBackward(prog, a, count) ==
  IF count = 0 THEN [ip |-> a, lost |-> FALSE]
  ELSE LET a1 == (a - 1) % WordMod
       IN IF a1 > Len(prog) THEN [ip |-> a1, lost |-> TRUE]
          ELSE LET c1 == IF pgm_read_byte(prog, a1) = OP_CLOSE
                         THEN (count + 1) % WordMod ELSE count
                   c2 == IF pgm_read_byte(prog, a1) = OP_OPEN
                         THEN (c1 - 1) % WordMod ELSE c1
               IN whileBackward(prog, a1, c2)

\* an ip that is incremented after the NUL as well
advance_Always(opcode, a) == (a + 1) % WordMod

\* if (opcode != '\0') ++ip;
advance(opcode, a) == IF opcode # 0 THEN (a + 1) % WordMod ELSE a

\* loop() of BF-run, from the statics ip (a), mp (m, the offset into
\* memory) and memory (mem); inp is the byte getChar() returns.  Yields
\* the statics after the call, the bytes printed, the opcode, and whether
\* the call dereferenced mp outside memory or scanned outside the string
runLoop(prog, a, m, mem, inp) ==
  LET opcode == pgm_read_byte(prog, a)
      inside == 0 <= m /\ m < MEM_SIZE
      cell   == IF inside THEN mem[m] ELSE 0
      same   == [ip |-> a, mp |-> m, memory |-> mem, printed |-> <<>>,
                 undefined |-> FALSE]
      store(v) == IF inside THEN [same EXCEPT !.memory[m] = v]
                  ELSE [same EXCEPT !.undefined = TRUE]
      jump(s) == [same EXCEPT !.ip = s.ip, !.undefined = s.lost]
      r == CASE opcode = OP_GT -> [same EXCEPT !.mp = m + 1]
             [] opcode = OP_LT -> [same EXCEPT !.mp = m - 1]
             [] opcode = OP_PLUS -> store((cell + 1) % ByteMod)
             [] opcode = OP_MINUS -> store((cell - 1) % ByteMod)
             [] opcode = OP_DOT ->
                  IF inside THEN [same EXCEPT !.printed = <<cell>>]
                  ELSE [same EXCEPT !.undefined = TRUE]
             [] opcode = OP_COMMA -> store(inp)
             [] opcode = OP_OPEN ->
                  IF ~inside THEN [same EXCEPT !.undefined = TRUE]
                  ELSE IF cell = 0 THEN jump(whileForward(prog, a, 1))
                  ELSE same
             [] opcode = OP_CLOSE ->
                  IF ~inside THEN [same EXCEPT !.undefined = TRUE]
                  ELSE IF cell # 0 THEN jump(whileBackward(prog, a, 1))
                  ELSE same
             [] OTHER -> same
  IN [ip |-> advance(opcode, r.ip), mp |-> r.mp, memory |-> r.memory,
      printed |-> r.printed, undefined |-> r.undefined, opcode |-> opcode]

\* the opcode the next loop() of BF-run fetches
RunOpcode == pgm_read_byte(runProgram, runIP)

\* one call of BF-run's loop(), while fewer than budget calls were made.
\* getChar() does not return before a byte is waiting.  Nothing is said
\* of the sketch after a call whose behaviour is undefined
RunLoopN(budget) ==
  /\ ~undefined
  /\ nloops < budget
  /\ RunOpcode = OP_COMMA => runIn # <<>>
  /\ \E b \in {runLoop(runProgram, runIP, runMP, runMemory,
                       IF runIn = <<>> THEN 0 ELSE Head(runIn))} :
       /\ runIP' = b.ip
       /\ runMP' = b.mp
       /\ runMemory' = b.memory
       /\ serial' = serial \o b.printed
       /\ undefined' = b.undefined
       /\ runIn' = IF b.opcode = OP_COMMA THEN Tail(runIn) ELSE runIn
  /\ nloops' = nloops + 1
  /\ UNCHANGED <<runProgram, explorerIn>>

\* setup() of BF-run and the initial values of the statics of loop(), with
\* prog compiled in and the bytes input waiting on the serial line
setupRun(prog, input) ==
  /\ runProgram = prog
  /\ runIP = 0
  /\ runMemory = ZeroMemory
  /\ runMP = 0
  /\ serial = <<>>
  /\ undefined = FALSE
  /\ nloops = 0
  /\ runIn = input

(***************************************************************************)
(* SpecRun: the BF-run sketch as it is in the repository, with hello world  *)
(* compiled in.  FairSpecRun: the Arduino core calls loop() again and       *)
(* again.                                                                   *)
(***************************************************************************)
\* what the host has sent when the sketch starts
RunInputs == {<<>>, <<OP_PLUS>>}

InitRun ==
  /\ ExplorerIdle
  /\ VmIdle
  /\ \E input \in RunInputs : setupRun(HelloWorld, input)
  /\ explorerIn = <<>>

RunLoop == RunLoopN(MaxLoopsRun)

NextRun ==
  /\ RunLoop
  /\ UNCHANGED <<explorerVars, vmVars>>

SpecRun == InitRun /\ [][NextRun]_vars

FairSpecRun == SpecRun /\ WF_vars(NextRun)

\* "Hello World!\n"
HelloText == <<72, 101, 108, 108, 111, 32, 87, 111, 114, 108, 100, 33, 10>>

\* s is an initial part of t
IsPrefix(s, t) == Len(s) <= Len(t) /\ \A i \in 1..Len(s) : s[i] = t[i]

\* ip is at the terminating NUL of the program string
RunHalted == runIP = Len(runProgram)

(***************************************************************************)
(* C21: BF-run executing its embedded program emits exactly the bytes       *)
(* "Hello World!\n" and then halts.  What was printed is always an initial  *)
(* part of the text and the memory pointer is always inside memory, with    *)
(* no undefined dereference or scan; ip reaches the terminating NUL, and    *)
(* whenever it is there the whole text was printed; every loop() made with  *)
(* ip at the NUL leaves ip, the memory pointer, every cell and the output   *)
(* unchanged.                                                               *)
(***************************************************************************)
C21_HelloWorldThenHalts ==
  /\ [](/\ IsPrefix(serial, HelloText)
        /\ 0 <= runMP /\ runMP < MEM_SIZE
        /\ ~undefined
        /\ runIP <= Len(runProgram)
        /\ RunHalted => serial = HelloText)
  /\ <>RunHalted
  /\ [][RunHalted => UNCHANGED <<runIP, runMP, runMemory, serial>>]_vars

\* the text was printed, ip is at the NUL and loop() was called there
C21_Witness ==
  /\ RunHalted
  /\ serial = HelloText
  /\ nloops = MaxLoopsRun
  /\ runMemory[1] = 87

(***************************************************************************)
(* C22: in the paged BF-Explorer every opcode the interpreter dispatches    *)
(* or examines in a bracket scan is a byte of the loaded program file: an   *)
(* instruction that is executed was fetched from an address below the       *)
(* file's length, and so was the last byte a forward bracket scan examined  *)
(* (the scan examines every address from the bracket's up to that one).     *)
(***************************************************************************)
C22_OpcodesFromFile ==
  [][(ITick /\ lastOp'.exec) =>
        /\ 0 <= addrIP /\ addrIP < Len(program.file)
        /\ ((lastOp'.opcode = OP_OPEN /\ Cell = 0)
            \/ (lastOp'.opcode = OP_COMMA /\ lastOp'.inp = 0)) =>
              LastScanned' < Len(program.file)]_vars

\* the dispatch alone
C22_DispatchFromFile ==
  [][(ITick /\ lastOp'.exec) =>
        (0 <= addrIP /\ addrIP < Len(program.file))]_vars

\* the forward scan of an instruction that was fetched from the file
C22_ScanFromFile ==
  [][(ITick /\ lastOp'.exec /\ AtOpcode(OP_OPEN) /\ Cell = 0) =>
        LastScanned' < Len(program.file)]_vars

(***************************************************************************)
(* SpecEq: the two sketches side by side.  BF-run has a program compiled    *)
(* in; the BF-Explorer has the same bytes as the one file on its card,      *)
(* loads it and runs it, with no other command.  The same bytes wait on     *)
(* the serial input of both.  The programs have balanced brackets and keep  *)
(* the data pointer on cells 0 and 1.                                       *)
(***************************************************************************)
\* the programs:  "+."  ",+."  "++[->+<]>."  ",[.-]"
EqFiles ==
  { <<OP_PLUS, OP_DOT>>,
    <<OP_COMMA, OP_PLUS, OP_DOT>>,
    <<OP_PLUS, OP_PLUS, OP_OPEN, OP_MINUS, OP_GT, OP_PLUS, OP_LT, OP_CLOSE,
      OP_GT, OP_DOT>>,
    <<OP_COMMA, OP_OPEN, OP_DOT, OP_MINUS, OP_CLOSE>> }

\* what the host has sent when the sketches start
EqInputs == {<<0>>, <<2>>}

InitEq ==
  \E prog \in EqFiles :
  \E input \in EqInputs :
    /\ setup({prog}, ProgPageSize)
    /\ setupRun(prog, input)
    /\ explorerIn = input

\* the BF-Explorer: l <file> as the first command, r after it, or no command
EqCommand ==
  /\ \/ ILoad /\ lastOp.op = "setup"
     \/ IRun
     \/ NoCommand
  /\ UNCHANGED runVars

\* the BF-Explorer: one instruction.  getChar() is called by an executed
\* ',' and does not return before a byte is waiting
EqTick ==
  \E nb \in NullBytes(program) :
  \E reads \in {get(program, ToU32(addrIP), nb) = OP_COMMA
                  /\ isInBounds(program, ToU32(addrIP))} :
    /\ reads => explorerIn # <<>>
    /\ TickN(IF reads THEN Head(explorerIn) ELSE 0, nb, MaxTicksEq)
    /\ explorerIn' = IF reads THEN Tail(explorerIn) ELSE explorerIn
    /\ UNCHANGED <<runProgram, runIP, runMemory, runMP, serial, undefined,
                   nloops, runIn>>

\* BF-run: one call of loop()
EqRunLoop ==
  /\ RunLoopN(MaxTicksEq)
  /\ UNCHANGED <<explorerVars, vmVars>>

NextEq ==
  \/ EqCommand
  \/ EqTick
  \/ EqRunLoop

SpecEq == InitEq /\ [][NextEq]_vars

\* the BF-Explorer ran the program and is Idle again
ExplorerEnded == lastOp.op = "tick" /\ runMode = "IDLE"

\* the cells both sketches address
SharedCells == {a \in TapeAddrs : a < MEM_SIZE}

\* the byte of the page buffer at the address that equals the file's length
ByteAtLength(v) == get(v, Len(v.file), 0)

(***************************************************************************)
(* C23: the two interpreters agree.  For a program with balanced brackets,  *)
(* while the data pointer of each is inside [0, MEM_SIZE) and BF-run's      *)
(* behaviour is defined, on the same input: what one has printed is an      *)
(* initial part of what the other has printed, and when both have ended     *)
(* (the BF-Explorer is Idle again, BF-run is at its NUL) they have printed  *)
(* the same bytes and hold the same values in the cells both address.       *)
(***************************************************************************)
C23_InterpretersAgree ==
  (/\ Balanced(runProgram)
   /\ ~undefined
   /\ 0 <= runMP /\ runMP < MEM_SIZE
   /\ 0 <= addrMP /\ addrMP < MEM_SIZE) =>
     /\ IsPrefix(output, serial) \/ IsPrefix(serial, output)
     /\ (ExplorerEnded /\ RunHalted) =>
          /\ output = serial
          /\ \A a \in SharedCells : Tape(memory)[a] = runMemory[a]

\* the same for the programs without ',' when the byte of the program page
\* at the address that equals the file's length is not an opcode
C23_AgreeWithoutCommaOrStrayByte ==
  (/\ Balanced(runProgram)
   /\ ~undefined
   /\ \A i \in 1..Len(runProgram) : runProgram[i] # OP_COMMA
   /\ program.isOpen /\ ByteAtLength(program) = 0) =>
     /\ IsPrefix(output, serial) \/ IsPrefix(serial, output)
     /\ (ExplorerEnded /\ RunHalted) =>
          /\ output = serial
          /\ \A a \in SharedCells : Tape(memory)[a] = runMemory[a]

====
